---- MODULE Spec2Model ----
(***************************************************************************)
(* The asynchronous job pipeline of demusifier: the in-memory job store    *)
(* (main.py: jobs, create_job, update_job_status), the background worker   *)
(* (main.py: process_video_async; process.py: process_video and            *)
(* cleanup_directories), the status query (main.py: get_video_status) and  *)
(* the artifact deletion endpoint (main.py: delete_video), over the three  *)
(* stores on disk (INPUT_DIR, OUTPUT_DIR, WORKING_DIR).                    *)
(*                                                                         *)
(* The worker runs in its own thread; the handlers run concurrently with   *)
(* it.  The job store is a plain dict without a lock, so every read and    *)
(* every write of one field of a job record, and every filesystem call,    *)
(* is one atomic step of the model.                                        *)
(*                                                                         *)
(* Strings that the code takes apart (file names) are sequences of         *)
(* one-character strings.  Python's None and the empty string are both     *)
(* falsy and the code only ever tests them for truthiness, so both are     *)
(* the empty sequence here.  The timestamps created_at and updated_at are  *)
(* not modelled.                                                           *)
(***************************************************************************)
EXTENDS Naturals, Sequences, FiniteSets, TLC

\* ------------------------------------------------------------------ bounds

\* Number of upload requests the model serves.
MaxUploads == 2

\* Number of uploads accepted where only the worker threads and the
\* deletion endpoint run (SpecFair).
MaxFairUploads == 1

\* Number of DELETE requests the model serves.
MaxDeletes == 1

\* ------------------------------------------------------- program constants

JOB_STATUS_PENDING == "pending"
JOB_STATUS_DOWNLOADING == "downloading"
JOB_STATUS_PROCESSING == "processing"
JOB_STATUS_COMPLETE == "complete"
JOB_STATUS_ERROR == "error"

None == <<>>

Truthy(x) == x # None

\* ------------------------------------------------------------ file names

\* A video whose extension is written in upper case, and a text file.
Clip == <<"c", ".", "M", "P", "4">>

Notes == <<"n", ".", "t", "x", "t">>

\* The uploads offered to the handler: a file name, or None for a form
\* without a file.
UploadNames == {Clip, Notes, None}

\* str.lower() on the characters the model uses.
LowerChar(c) ==
  CASE c = "M" -> "m"
    [] c = "P" -> "p"
    [] OTHER -> c

Lower(s) == [i \in 1..Len(s) |-> LowerChar(s[i])]

\* os.path.splitext on a name without directory separators: the extension
\* starts at the last dot, unless only dots precede that dot.
SplitextDot(p) ==
  LET dots == {i \in 1..Len(p) : p[i] = "."}
      last == IF dots = {} THEN 0 ELSE CHOOSE i \in dots : \A k \in dots : k <= i
  IN  IF last = 0 \/ (\A k \in 1..(last - 1) : p[k] = ".") THEN Len(p) + 1 ELSE last

SplitextBase(p) == SubSeq(p, 1, SplitextDot(p) - 1)

SplitextExt(p) == SubSeq(p, SplitextDot(p), Len(p))

Processed == <<"_", "p", "r", "o", "c", "e", "s", "s", "e", "d">>

allowed_extensions ==
  { <<".", "m", "p", "4">>, <<".", "a", "v", "i">>, <<".", "m", "o", "v">>,
    <<".", "m", "k", "v">>, <<".", "w", "e", "b", "m">> }

\* main.py line 235: f"{base}_processed{ext}"
CleanFilename(original_filename) ==
  SplitextBase(original_filename) \o Processed \o SplitextExt(original_filename)

\* ------------------------------------------------------------------ uuids

\* uuid.uuid4() returns a fresh identifier at each call.  The k-th upload
\* draws three of them: the prefix of the stored upload (main.py line 362),
\* the job id (main.py line 178) and the working directory of its run
\* (process.py line 259).  The model numbers them injectively.
FileUuid(k) == 3 * (k - 1) + 1

JobUuid(k) == 3 * (k - 1) + 2

WorkUuid(job_id) == job_id + 1

JobIds == {JobUuid(k) : k \in 1..MaxUploads}

\* An id no job was ever given.
UnknownId == 0

\* ------------------------------------------------------------ file stores

\* Names in OUTPUT_DIR.
PlaceholderName(job_id) == [kind |-> "placeholder", id |-> job_id, name |-> None]

\* process.py line 266: f"{video_name}_processed_{job_id}.mp4"
ResultName(work_id) == [kind |-> "result", id |-> work_id, name |-> None]

CleanName(filename) == [kind |-> "clean", id |-> 0, name |-> filename]

\* Paths in INPUT_DIR: main.py line 363, f"{job_id}_{filename}"
InputPath(file_id, filename) == [id |-> file_id, name |-> filename]

\* A directory is a set of entries [file, data]; data is the id of the job
\* whose run wrote the content.
Exists(dir, f) == \E e \in dir : e.file = f

Remove(dir, f) == {e \in dir : e.file # f}

WriteFile(dir, f, d) == Remove(dir, f) \cup {[file |-> f, data |-> d]}

DataOf(dir, f) == (CHOOSE e \in dir : e.file = f).data

FilesOf(dir) == {e.file : e \in dir}

VARIABLES
  jobs,        \* main.py line 69: the job store, job id -> record
  inputDir,    \* the paths that exist in INPUT_DIR
  outputDir,   \* the entries of OUTPUT_DIR
  workingDir,  \* the job directories that exist in WORKING_DIR
  token,       \* config.py line 18: whether REPLICATE_API_TOKEN is set
  uploads,     \* number of upload requests handled so far
  up,          \* the upload handler: its position and its last response
  w,           \* the worker threads, job id -> locals of process_video_async
  q,           \* the status query being served
  deletes,     \* number of DELETE requests served so far
  hist         \* history: job id -> every value its record has had

vars == <<jobs, inputDir, outputDir, workingDir, token, uploads, up, w, q, deletes, hist>>

\* ------------------------------------------------------------- messages

\* main.py line 250
FailedMessage == <<"Video processing failed or no output file generated">>

\* process.py line 122
TokenMessage == <<"REPLICATE_API_TOKEN not found in environment variables">>

\* str(e) of the exceptions the external calls raise.
MakedirsMessage == <<"makedirs: OSError">>

SplitMessage == <<"ffmpeg split: CalledProcessError">>

RemoteMessage == <<"replicate: ModelError">>

\* An exception built without arguments (a client timeout): str(e) is "".
EmptyMessage == <<>>

MergeMessage == <<"ffmpeg merge: CalledProcessError">>

MoveMessage == <<"shutil.move: OSError">>

RemoveMessage == <<"os.remove: FileNotFoundError">>

\* ------------------------------------------------------------ job store

\* main.py lines 179-189: the record create_job inserts.
NewJob(job_id, video_file_path, original_filename) ==
  [ id |-> job_id,
    video_file_path |-> video_file_path,
    original_filename |-> original_filename,
    status |-> JOB_STATUS_PENDING,
    error_message |-> None,
    output_file |-> None,
    progress |-> 0 ]

\* Extend a function by one key.
Ext(f, k, v) == [x \in DOMAIN f \cup {k} |-> IF x = k THEN v ELSE f[x]]

\* One write of one field of jobs[job_id], recorded in the history.
Store(job_id, rec) ==
  /\ jobs' = [jobs EXCEPT ![job_id] = rec]
  /\ hist' = [hist EXCEPT ![job_id] = @ \cup {rec}]

Terminal(status) == status \in {JOB_STATUS_COMPLETE, JOB_STATUS_ERROR}

\* --------------------------------------------------------- worker locals

\* The locals of one worker thread: its position (pc), the arguments of the
\* update_job_status call in progress (a_*, ret), the record at the start
\* of that call (pre), the exception in flight (exc), process_video's
\* working_dir (0 for None), the arguments of the cleanup_directories call
\* in progress (cd_*), whether shutil.rmtree raised in this run, the
\* dry_run argument of process_video (False at main.py line 229), the
\* stage functions process_video has called so far, in order, and whether
\* the Replicate client was created and called (remote).
NewWorker(rec) ==
  [ pc |-> "a223", ret |-> "", a_status |-> "", a_progress |-> 0,
    a_err |-> None, a_out |-> None, pre |-> rec, exc |-> None,
    working_dir |-> 0, cd_input |-> FALSE, cd_ret |-> "",
    rmtree_raised |-> FALSE, dry_run |-> FALSE, stages |-> <<>>,
    remote |-> FALSE ]

\* The query handler between two requests. after_done records whether the
\* worker of the job asked for had finished when the request arrived.
IdleQuery ==
  [ pc |-> "idle", job_id |-> 0, status |-> "", progress |-> 0,
    output_file |-> None, error_message |-> None, view |-> "",
    after_done |-> FALSE ]

\* The upload handler before its first request: pc is its position, and
\* filename, view and job_id describe the last request it answered.
IdleUpload ==
  [ pc |-> "idle", filename |-> None, view |-> "", job_id |-> 0 ]

Init ==
  /\ jobs = <<>>
  /\ inputDir = {}
  /\ outputDir = {}
  /\ workingDir = {}
  /\ token \in BOOLEAN
  /\ uploads = 0
  /\ up = IdleUpload
  /\ w = <<>>
  /\ q = IdleQuery
  /\ deletes = 0
  /\ hist = <<>>

\* ---------------------------------------------------------------- upload

\* The upload handler, create_video_job, serves one request at a time
\* while fewer than limit requests were handled.

\* main.py lines 338-345: no file in the form.
UploadNoFile(limit) ==
  /\ up.pc = "idle"
  /\ uploads < limit
  /\ \E filename \in UploadNames :
       /\ ~Truthy(filename)
       /\ uploads' = uploads + 1
       /\ up' = [pc |-> "idle", filename |-> filename, view |-> "nofile", job_id |-> 0]
       /\ UNCHANGED <<jobs, hist, inputDir, outputDir, workingDir, token, w, q, deletes>>

\* main.py lines 348-369 in another order: the upload is saved (lines
\* 361-369) before its extension is tested.
UploadInvalidTypeAfterSave(limit) ==
  /\ up.pc = "idle"
  /\ uploads < limit
  /\ \E filename \in UploadNames :
       /\ Truthy(filename)
       /\ Lower(SplitextExt(filename)) \notin allowed_extensions
       /\ uploads' = uploads + 1
       /\ inputDir' = inputDir \cup {InputPath(FileUuid(uploads + 1), filename)}
       /\ up' = [pc |-> "idle", filename |-> filename, view |-> "invalid", job_id |-> 0]
       /\ UNCHANGED <<jobs, hist, outputDir, workingDir, token, w, q, deletes>>

\* main.py lines 348-359: the extension is not allowed.
UploadInvalidType(limit) ==
  /\ up.pc = "idle"
  /\ uploads < limit
  /\ \E filename \in UploadNames :
       /\ Truthy(filename)
       /\ Lower(SplitextExt(filename)) \notin allowed_extensions
       /\ uploads' = uploads + 1
       /\ up' = [pc |-> "idle", filename |-> filename, view |-> "invalid", job_id |-> 0]
       /\ UNCHANGED <<jobs, hist, inputDir, outputDir, workingDir, token, w, q, deletes>>

\* main.py lines 361-379 where line 374 does not rebind job_id: the handler
\* keeps the uuid of line 362, the prefix of the saved file's name.
UploadAcceptStaleId(limit) ==
  /\ up.pc = "idle"
  /\ uploads < limit
  /\ \E filename \in UploadNames :
       LET k == uploads + 1
           file_path == InputPath(FileUuid(k), filename)
           job_id == JobUuid(k)
           rec == NewJob(job_id, file_path, filename)
       IN  /\ Truthy(filename)
           /\ Lower(SplitextExt(filename)) \in allowed_extensions
           /\ uploads' = k
           /\ inputDir' = inputDir \cup {file_path}
           /\ jobs' = Ext(jobs, job_id, rec)
           /\ hist' = Ext(hist, job_id, {rec})
           /\ outputDir' = WriteFile(outputDir, PlaceholderName(job_id), job_id)
           /\ w' = Ext(w, job_id, NewWorker(rec))
           /\ up' = [pc |-> "u382", filename |-> filename, view |-> "", job_id |-> FileUuid(k)]
           /\ UNCHANGED <<workingDir, token, q, deletes>>

\* main.py lines 361-379 with create_job (lines 176-198): the upload is
\* saved, the record inserted, the placeholder written, the thread started.
\* The handler then holds the id create_job returned (line 374) and has its
\* return statement (line 382) still to run.
UploadAccept(limit) ==
  /\ up.pc = "idle"
  /\ uploads < limit
  /\ \E filename \in UploadNames :
       LET k == uploads + 1
           file_path == InputPath(FileUuid(k), filename)
           job_id == JobUuid(k)
           rec == NewJob(job_id, file_path, filename)
       IN  /\ Truthy(filename)
           /\ Lower(SplitextExt(filename)) \in allowed_extensions
           /\ uploads' = k
           /\ inputDir' = inputDir \cup {file_path}
           /\ jobs' = Ext(jobs, job_id, rec)
           /\ hist' = Ext(hist, job_id, {rec})
           /\ outputDir' = WriteFile(outputDir, PlaceholderName(job_id), job_id)
           /\ w' = Ext(w, job_id, NewWorker(rec))
           /\ up' = [pc |-> "u382", filename |-> filename, view |-> "", job_id |-> job_id]
           /\ UNCHANGED <<workingDir, token, q, deletes>>

\* main.py line 382: the handler answers with the redirect to /jobs/{job_id}.
\* Nothing orders this step with the steps of the thread started at line 379.
UploadReturn ==
  /\ up.pc = "u382"
  /\ up' = [up EXCEPT !.pc = "idle", !.view = "redirect"]
  /\ UNCHANGED <<jobs, hist, inputDir, outputDir, workingDir, token, uploads, w, q, deletes>>

\* main.py lines 361-374 and 384-393: open() of the placeholder raises in
\* create_job (lines 192-193) after the record was inserted; the handler's
\* except clause answers with the upload error and no thread is started.
UploadCreateJobRaises(limit) ==
  /\ up.pc = "idle"
  /\ uploads < limit
  /\ \E filename \in UploadNames :
       LET k == uploads + 1
           file_path == InputPath(FileUuid(k), filename)
           job_id == JobUuid(k)
           rec == NewJob(job_id, file_path, filename)
       IN  /\ Truthy(filename)
           /\ Lower(SplitextExt(filename)) \in allowed_extensions
           /\ uploads' = k
           /\ inputDir' = inputDir \cup {file_path}
           /\ jobs' = Ext(jobs, job_id, rec)
           /\ hist' = Ext(hist, job_id, {rec})
           /\ up' = [pc |-> "idle", filename |-> filename, view |-> "error", job_id |-> 0]
           /\ UNCHANGED <<outputDir, workingDir, token, w, q, deletes>>

\* ----------------------------------------------------- update_job_status

InUpdate(l) == l.pc \in {"u_progress", "u_error", "u_output", "u_exists", "u_remove"}

\* main.py lines 201-206: the call and its first write, jobs[job_id]["status"].
\* (job_id is always a key of jobs for a running worker, line 205.)
\* Every call the worker makes passes a progress, so line 208 always holds.
EnterUpdate(l, rec, status, progress, error_message, output_file, ret) ==
  [l EXCEPT !.pc = "u_progress", !.ret = ret, !.a_status = status,
            !.a_progress = progress, !.a_err = error_message,
            !.a_out = output_file, !.pre = rec]

CallUpdate(j, status, progress, error_message, output_file, ret) ==
  /\ Store(j, [jobs[j] EXCEPT !.status = status])
  /\ w' = [w EXCEPT ![j] =
             EnterUpdate(@, jobs[j], status, progress, error_message, output_file, ret)]

\* Where update_job_status goes on after line 209 and after line 211: the
\* tests of lines 210 and 212 read only the arguments.
AfterProgress(l) ==
  IF Truthy(l.a_err) THEN "u_error"
  ELSE IF Truthy(l.a_out) THEN "u_output" ELSE l.ret

AfterError(l) == IF Truthy(l.a_out) THEN "u_output" ELSE l.ret

\* main.py lines 208-209
UpdateProgress(j) ==
  /\ w[j].pc = "u_progress"
  /\ Store(j, [jobs[j] EXCEPT !.progress = w[j].a_progress])
  /\ w' = [w EXCEPT ![j].pc = AfterProgress(w[j])]
  /\ UNCHANGED <<inputDir, outputDir, workingDir, token, uploads, up, q, deletes>>

\* main.py lines 210-211
UpdateErrorMessage(j) ==
  /\ w[j].pc = "u_error"
  /\ Store(j, [jobs[j] EXCEPT !.error_message = w[j].a_err])
  /\ w' = [w EXCEPT ![j].pc = AfterError(w[j])]
  /\ UNCHANGED <<inputDir, outputDir, workingDir, token, uploads, up, q, deletes>>

\* main.py lines 212-213
UpdateOutputFile(j) ==
  /\ w[j].pc = "u_output"
  /\ Store(j, [jobs[j] EXCEPT !.output_file = w[j].a_out])
  /\ w' = [w EXCEPT ![j].pc = "u_exists"]
  /\ UNCHANGED <<inputDir, outputDir, workingDir, token, uploads, up, q, deletes>>

\* An update_job_status without lines 215-217: the placeholder is kept.
UpdatePlaceholderKept(j) ==
  /\ w[j].pc = "u_exists"
  /\ w' = [w EXCEPT ![j].pc = w[j].ret]
  /\ UNCHANGED <<jobs, hist, inputDir, outputDir, workingDir, token, uploads, up, q, deletes>>

\* main.py lines 215-216: os.path.exists(placeholder_path)
UpdatePlaceholderExists(j) ==
  /\ w[j].pc = "u_exists"
  /\ w' = [w EXCEPT ![j].pc =
             IF Exists(outputDir, PlaceholderName(j)) THEN "u_remove" ELSE w[j].ret]
  /\ UNCHANGED <<jobs, hist, inputDir, outputDir, workingDir, token, uploads, up, q, deletes>>

\* main.py line 217: os.remove(placeholder_path).  It raises FileNotFoundError
\* when the file has gone since line 216; the exception leaves
\* update_job_status and reaches the except clause of process_video_async.
UpdatePlaceholderRemove(j) ==
  /\ w[j].pc = "u_remove"
  /\ IF Exists(outputDir, PlaceholderName(j))
       THEN /\ outputDir' = Remove(outputDir, PlaceholderName(j))
            /\ w' = [w EXCEPT ![j].pc = w[j].ret]
       ELSE /\ outputDir' = outputDir
            /\ w' = [w EXCEPT ![j].pc = "a253", ![j].exc = RemoveMessage]
  /\ UNCHANGED <<jobs, hist, inputDir, workingDir, token, uploads, up, q, deletes>>

\* --------------------------------------------------- cleanup_directories

\* process.py lines 307-323, called with working_dir and, when has_input,
\* with input_file.
EnterCleanup(l, has_input, ret) ==
  [l EXCEPT !.pc = "cd_rmtree", !.cd_input = has_input, !.cd_ret = ret]

\* process.py lines 311-315 without the try of line 309: what shutil.rmtree
\* raises leaves cleanup_directories.
CleanupRmtreeNoTry(j) ==
  /\ w[j].pc = "cd_rmtree"
  /\ LET d == w[j].working_dir
         go_on == IF w[j].cd_input THEN "cd_input" ELSE w[j].cd_ret
     IN  IF d # 0 /\ d \in workingDir
           THEN \/ /\ workingDir' = workingDir \ {d}
                   /\ w' = [w EXCEPT ![j].pc = go_on]
                \/ /\ workingDir' = workingDir
                   /\ w' = [w EXCEPT ![j].pc = "a253", ![j].exc = <<"shutil.rmtree: OSError">>,
                                     ![j].rmtree_raised = TRUE]
           ELSE /\ workingDir' = workingDir
                /\ w' = [w EXCEPT ![j].pc = go_on]
  /\ UNCHANGED <<jobs, hist, inputDir, outputDir, token, uploads, up, q, deletes>>

\* process.py lines 311-315 and 322-323.  shutil.rmtree returns or raises;
\* the except clause swallows the exception and the function returns
\* without reaching line 318.
CleanupRmtree(j) ==
  /\ w[j].pc = "cd_rmtree"
  /\ LET d == w[j].working_dir
         go_on == IF w[j].cd_input THEN "cd_input" ELSE w[j].cd_ret
     IN  IF d # 0 /\ d \in workingDir
           THEN \/ /\ workingDir' = workingDir \ {d}
                   /\ w' = [w EXCEPT ![j].pc = go_on]
                \/ /\ workingDir' = workingDir
                   /\ w' = [w EXCEPT ![j].pc = w[j].cd_ret,
                                     ![j].rmtree_raised = TRUE]
           ELSE /\ workingDir' = workingDir
                /\ w' = [w EXCEPT ![j].pc = go_on]
  /\ UNCHANGED <<jobs, hist, inputDir, outputDir, token, uploads, up, q, deletes>>

\* process.py lines 318-320: os.remove(input_file) when the file exists.
\* Nothing else removes the upload, so the removal is taken to succeed.
CleanupInputFile(j) ==
  /\ w[j].pc = "cd_input"
  /\ inputDir' = inputDir \ {jobs[j].video_file_path}
  /\ w' = [w EXCEPT ![j].pc = w[j].cd_ret]
  /\ UNCHANGED <<jobs, hist, outputDir, workingDir, token, uploads, up, q, deletes>>

\* ----------------------------------------------------------- process_video

\* A process_video whose except clause re-raises without releasing the
\* working directory.
OnPipelineErrorNoCleanup(l, message) ==
  [l EXCEPT !.pc = "a253", !.exc = message]

\* process.py lines 299-304: the except clause of process_video.  cleanup
\* is True and working_dir is set from line 260 on, so the working
\* directory is released (without input_file) and the exception re-raised
\* into process_video_async.
OnPipelineError(l, message) ==
  [EnterCleanup(l, FALSE, "a253") EXCEPT !.exc = message]

\* main.py lines 223-226
StartProcessing(j) ==
  /\ w[j].pc = "a223"
  /\ CallUpdate(j, JOB_STATUS_PROCESSING, 25, None, None, "a228")
  /\ UNCHANGED <<inputDir, outputDir, workingDir, token, uploads, up, q, deletes>>

\* main.py line 228 with a progress below the one of line 223.
MarkHalfwayLower(j) ==
  /\ w[j].pc = "a228"
  /\ CallUpdate(j, JOB_STATUS_PROCESSING, 10, None, None, "p259")
  /\ UNCHANGED <<inputDir, outputDir, workingDir, token, uploads, up, q, deletes>>

\* main.py line 228
MarkHalfway(j) ==
  /\ w[j].pc = "a228"
  /\ CallUpdate(j, JOB_STATUS_PROCESSING, 50, None, None, "p259")
  /\ UNCHANGED <<inputDir, outputDir, workingDir, token, uploads, up, q, deletes>>

\* main.py line 229 and process.py lines 256-262: working_dir is named,
\* then os.makedirs returns or raises.
MakeWorkingDir(j) ==
  /\ w[j].pc = "p259"
  /\ LET d == WorkUuid(j)
     IN  \/ /\ workingDir' = workingDir \cup {d}
            /\ w' = [w EXCEPT ![j].pc = "p274", ![j].working_dir = d]
         \/ /\ workingDir' = workingDir
            /\ w' = [w EXCEPT ![j] =
                       OnPipelineError([@ EXCEPT !.working_dir = d], MakedirsMessage)]
  /\ UNCHANGED <<jobs, hist, inputDir, outputDir, token, uploads, up, q, deletes>>

\* The locals after process_video has called one more stage function.
Called(l, stage) == [l EXCEPT !.stages = Append(@, stage)]

\* process.py lines 272-274: split_video_streams returns or raises.
Split(j) ==
  /\ w[j].pc = "p274"
  /\ \/ w' = [w EXCEPT ![j] = [Called(@, "split") EXCEPT !.pc = "p279"]]
     \/ w' = [w EXCEPT ![j] = OnPipelineError(Called(@, "split"), SplitMessage)]
  /\ UNCHANGED <<jobs, hist, inputDir, outputDir, workingDir, token, uploads, up, q, deletes>>

\* process.py lines 277-279 without the test of dry_run.
IsolateAlways(j) ==
  /\ w[j].pc = "p279"
  /\ IF ~token
       THEN w' = [w EXCEPT ![j] = OnPipelineError(Called(@, "isolate"), TokenMessage)]
       ELSE \/ w' = [w EXCEPT ![j] = [Called(@, "isolate") EXCEPT !.pc = "p286"]]
            \/ \E m \in {RemoteMessage, EmptyMessage} :
                 w' = [w EXCEPT ![j] = OnPipelineError(Called(@, "isolate"), m)]
  /\ UNCHANGED <<jobs, hist, inputDir, outputDir, workingDir, token, uploads, up, q, deletes>>

\* process.py lines 125-176: isolate_vocals_with_replicate past its token
\* test; the client is created and the remote model is run.
CalledRemote(l) == [Called(l, "isolate") EXCEPT !.remote = TRUE]

\* process.py lines 277-279 with an isolate_vocals_with_replicate that has
\* no token test (lines 121-122): the client is called without a token and
\* the service refuses.
IsolateNoTokenTest(j) ==
  /\ w[j].pc = "p279"
  /\ IF w[j].dry_run
       THEN w' = [w EXCEPT ![j].pc = "p286"]
       ELSE IF ~token
         THEN w' = [w EXCEPT ![j] = OnPipelineError(CalledRemote(@), RemoteMessage)]
         ELSE \/ w' = [w EXCEPT ![j] = [CalledRemote(@) EXCEPT !.pc = "p286"]]
              \/ \E m \in {RemoteMessage, EmptyMessage} :
                   w' = [w EXCEPT ![j] = OnPipelineError(CalledRemote(@), m)]
  /\ UNCHANGED <<jobs, hist, inputDir, outputDir, workingDir, token, uploads, up, q, deletes>>

\* process.py lines 277-282 and lines 119-176: with dry_run the audio is
\* passed on as it is; otherwise isolate_vocals_with_replicate is called,
\* which raises at once without a token, and otherwise calls the remote
\* service and returns or raises what the client raised.
Isolate(j) ==
  /\ w[j].pc = "p279"
  /\ IF w[j].dry_run
       THEN w' = [w EXCEPT ![j].pc = "p286"]
       ELSE IF ~token
         THEN w' = [w EXCEPT ![j] = OnPipelineError(Called(@, "isolate"), TokenMessage)]
         ELSE \/ w' = [w EXCEPT ![j] = [CalledRemote(@) EXCEPT !.pc = "p286"]]
              \/ \E m \in {RemoteMessage, EmptyMessage} :
                   w' = [w EXCEPT ![j] = OnPipelineError(CalledRemote(@), m)]
  /\ UNCHANGED <<jobs, hist, inputDir, outputDir, workingDir, token, uploads, up, q, deletes>>

\* process.py lines 285-295: merge_audio_video_streams writes output_path
\* into OUTPUT_DIR and returns, or raises (leaving no output); on return
\* cleanup_directories is called with working_dir and input_file (cleanup
\* is True).
Merge(j) ==
  /\ w[j].pc = "p286"
  /\ \/ /\ outputDir' = WriteFile(outputDir, ResultName(w[j].working_dir), j)
        /\ w' = [w EXCEPT ![j] = EnterCleanup(Called(@, "merge"), TRUE, "a231")]
     \/ /\ outputDir' = outputDir
        /\ w' = [w EXCEPT ![j] = OnPipelineError(Called(@, "merge"), MergeMessage)]
  /\ UNCHANGED <<jobs, hist, inputDir, workingDir, token, uploads, up, q, deletes>>

\* ------------------------------------------------------ process_video_async

\* main.py lines 231 and 245-251: the test of the result file, and the
\* error update when it is missing.
CheckResult(j) ==
  /\ w[j].pc = "a231"
  /\ IF Exists(outputDir, ResultName(w[j].working_dir))
       THEN /\ w' = [w EXCEPT ![j].pc = "a239"]
            /\ UNCHANGED <<jobs, hist>>
       ELSE CallUpdate(j, JOB_STATUS_ERROR, 100, FailedMessage, None, "done")
  /\ UNCHANGED <<inputDir, outputDir, workingDir, token, uploads, up, q, deletes>>

\* main.py lines 233-239: shutil.move(result_path, new_filepath) replaces
\* any file of the clean name, or raises (always when result_path has
\* gone since line 231).
MoveResult(j) ==
  /\ w[j].pc = "a239"
  /\ LET src == ResultName(w[j].working_dir)
         dst == CleanName(CleanFilename(jobs[j].original_filename))
     IN  \/ /\ Exists(outputDir, src)
            /\ outputDir' = WriteFile(Remove(outputDir, src), dst, DataOf(outputDir, src))
            /\ w' = [w EXCEPT ![j].pc = "a241"]
         \/ /\ outputDir' = outputDir
            /\ w' = [w EXCEPT ![j].pc = "a253", ![j].exc = MoveMessage]
  /\ UNCHANGED <<jobs, hist, inputDir, workingDir, token, uploads, up, q, deletes>>

\* main.py lines 241-243 passing the status of lines 223 and 228.
MarkCompleteStillProcessing(j) ==
  /\ w[j].pc = "a241"
  /\ CallUpdate(j, JOB_STATUS_PROCESSING, 100, None,
                CleanFilename(jobs[j].original_filename), "done")
  /\ UNCHANGED <<inputDir, outputDir, workingDir, token, uploads, up, q, deletes>>

\* main.py lines 241-244
MarkComplete(j) ==
  /\ w[j].pc = "a241"
  /\ CallUpdate(j, JOB_STATUS_COMPLETE, 100, None,
                CleanFilename(jobs[j].original_filename), "done")
  /\ UNCHANGED <<inputDir, outputDir, workingDir, token, uploads, up, q, deletes>>

\* A process_video_async whose except clause logs the exception and does
\* not update the job.
HandleExceptionNoUpdate(j) ==
  /\ w[j].pc = "a253"
  /\ w' = [w EXCEPT ![j].pc = "done"]
  /\ UNCHANGED <<jobs, hist, inputDir, outputDir, workingDir, token, uploads, up, q, deletes>>

\* main.py lines 253-256: the except clause of process_video_async.
HandleException(j) ==
  /\ w[j].pc = "a253"
  /\ CallUpdate(j, JOB_STATUS_ERROR, 100, w[j].exc, None, "done")
  /\ UNCHANGED <<inputDir, outputDir, workingDir, token, uploads, up, q, deletes>>

\* One step of the worker thread of job j.
Worker(j) ==
  \/ StartProcessing(j)
  \/ MarkHalfway(j)
  \/ MakeWorkingDir(j)
  \/ Split(j)
  \/ Isolate(j)
  \/ Merge(j)
  \/ CleanupRmtree(j)
  \/ CleanupInputFile(j)
  \/ CheckResult(j)
  \/ MoveResult(j)
  \/ MarkComplete(j)
  \/ HandleException(j)
  \/ UpdateProgress(j)
  \/ UpdateErrorMessage(j)
  \/ UpdateOutputFile(j)
  \/ UpdatePlaceholderExists(j)
  \/ UpdatePlaceholderRemove(j)

\* --------------------------------------------------------- get_video_status

\* main.py lines 591-601 with jobs.setdefault in place of the membership
\* test: an unknown id is given a fresh record and served like a known one.
QueryStartSetdefault ==
  /\ q.pc = "idle"
  /\ \E job_id \in JobIds \cup {UnknownId} :
       LET rec == NewJob(job_id, InputPath(0, None), None)
           known == job_id \in DOMAIN jobs
       IN  /\ jobs' = IF known THEN jobs ELSE Ext(jobs, job_id, rec)
           /\ hist' = IF known THEN hist ELSE Ext(hist, job_id, {rec})
           /\ q' = [q EXCEPT !.pc = "q605", !.job_id = job_id,
                             !.status = jobs'[job_id].status,
                             !.after_done = (job_id \in DOMAIN w /\ w[job_id].pc = "done")]
  /\ UNCHANGED <<inputDir, outputDir, workingDir, token, uploads, up, w, deletes>>

\* main.py lines 591-601: an unknown id gets the not-found view; otherwise
\* job = jobs[job_id] is a reference to the live record and status is read.
QueryStart ==
  /\ q.pc = "idle"
  /\ \E job_id \in JobIds \cup {UnknownId} :
       IF job_id \notin DOMAIN jobs
         THEN q' = [q EXCEPT !.pc = "returned", !.job_id = job_id, !.view = "notfound"]
         ELSE q' = [q EXCEPT !.pc = "q605", !.job_id = job_id,
                             !.status = jobs[job_id].status,
                             !.after_done = (job_id \in DOMAIN w /\ w[job_id].pc = "done")]
  /\ UNCHANGED <<jobs, hist, inputDir, outputDir, workingDir, token, uploads, up, w, deletes>>

\* The branch get_video_status takes at lines 607-610, 634 and 647.
Branch(status, is_processing) ==
  IF status \in {JOB_STATUS_PENDING, JOB_STATUS_DOWNLOADING, JOB_STATUS_PROCESSING}
       \/ is_processing
    THEN "q616"
    ELSE IF status = JOB_STATUS_COMPLETE THEN "q636" ELSE "q657"

\* main.py lines 604-610: os.path.exists(placeholder_path), then the branch.
QueryPlaceholder ==
  /\ q.pc = "q605"
  /\ LET is_processing == Exists(outputDir, PlaceholderName(q.job_id))
     IN  q' = [q EXCEPT !.pc = Branch(q.status, is_processing)]
  /\ UNCHANGED <<jobs, hist, inputDir, outputDir, workingDir, token, uploads, up, w, deletes>>

\* main.py lines 612-632: the processing view.  job["progress"] is read at
\* line 616 and again at line 617; the model reads it once.
QueryProcessing ==
  /\ q.pc = "q616"
  /\ q' = [q EXCEPT !.pc = "returned", !.progress = jobs[q.job_id].progress,
                    !.view = "processing"]
  /\ UNCHANGED <<jobs, hist, inputDir, outputDir, workingDir, token, uploads, up, w, deletes>>

\* main.py lines 634-645: the redirect to the artifact, or the alert.
QueryComplete ==
  /\ q.pc = "q636"
  /\ LET output_file == jobs[q.job_id].output_file
     IN  q' = [q EXCEPT !.pc = "returned", !.output_file = output_file,
                        !.view = IF Truthy(output_file) THEN "redirect" ELSE "alert"]
  /\ UNCHANGED <<jobs, hist, inputDir, outputDir, workingDir, token, uploads, up, w, deletes>>

\* main.py lines 647-665: the error view with job.get("error_message").
QueryError ==
  /\ q.pc = "q657"
  /\ q' = [q EXCEPT !.pc = "returned", !.view = "error",
                    !.error_message = jobs[q.job_id].error_message]
  /\ UNCHANGED <<jobs, hist, inputDir, outputDir, workingDir, token, uploads, up, w, deletes>>

\* The response has been sent; the handler is free for the next request.
QueryDone ==
  /\ q.pc = "returned"
  /\ q' = IdleQuery
  /\ UNCHANGED <<jobs, hist, inputDir, outputDir, workingDir, token, uploads, up, w, deletes>>

\* ---------------------------------------------------------------- list_videos

\* main.py lines 534-537: the test list_videos applies to a name of
\* OUTPUT_DIR, fname.endswith of the five extensions (in lower case, as
\* written) and "_processed" in fname.  A placeholder ends in ".txt"; the
\* name process_video gives its output (process.py line 266) ends in ".mp4"
\* and contains "_processed"; a final name is base + "_processed" + ext.
IsListed(f) ==
  CASE f.kind = "placeholder" -> FALSE
    [] f.kind = "result" -> TRUE
    [] f.kind = "clean" -> SplitextExt(f.name) \in allowed_extensions

\* main.py lines 530-562: the files the listing returns.
list_videos(dir) == {f \in FilesOf(dir) : IsListed(f)}

\* main.py lines 677-678: the names DELETE /videos/{video_filename} accepts.
Deletable(dir) == FilesOf(dir)

\* -------------------------------------------------------------- delete_video

\* main.py lines 674-693: DELETE /videos/{video_filename} removes the named
\* file of OUTPUT_DIR, whatever file it is.
DeleteVideo ==
  /\ deletes < MaxDeletes
  /\ \E f \in FilesOf(outputDir) : outputDir' = Remove(outputDir, f)
  /\ deletes' = deletes + 1
  /\ UNCHANGED <<jobs, hist, inputDir, workingDir, token, uploads, up, w, q>>

\* main.py lines 694-702: the name is not in OUTPUT_DIR.
DeleteVideoNotFound ==
  /\ deletes < MaxDeletes
  /\ \E f \in {PlaceholderName(j) : j \in JobIds} : ~Exists(outputDir, f)
  /\ deletes' = deletes + 1
  /\ UNCHANGED <<jobs, hist, inputDir, outputDir, workingDir, token, uploads, up, w, q>>

\* --------------------------------------------------------------- the system

Next ==
  \/ UploadNoFile(MaxUploads)
  \/ UploadInvalidType(MaxUploads)
  \/ UploadAccept(MaxUploads)
  \/ UploadCreateJobRaises(MaxUploads)
  \/ UploadReturn
  \/ \E j \in DOMAIN w : StartProcessing(j)
  \/ \E j \in DOMAIN w : MarkHalfway(j)
  \/ \E j \in DOMAIN w : MakeWorkingDir(j)
  \/ \E j \in DOMAIN w : Split(j)
  \/ \E j \in DOMAIN w : Isolate(j)
  \/ \E j \in DOMAIN w : Merge(j)
  \/ \E j \in DOMAIN w : CleanupRmtree(j)
  \/ \E j \in DOMAIN w : CleanupInputFile(j)
  \/ \E j \in DOMAIN w : CheckResult(j)
  \/ \E j \in DOMAIN w : MoveResult(j)
  \/ \E j \in DOMAIN w : MarkComplete(j)
  \/ \E j \in DOMAIN w : HandleException(j)
  \/ \E j \in DOMAIN w : UpdateProgress(j)
  \/ \E j \in DOMAIN w : UpdateErrorMessage(j)
  \/ \E j \in DOMAIN w : UpdateOutputFile(j)
  \/ \E j \in DOMAIN w : UpdatePlaceholderExists(j)
  \/ \E j \in DOMAIN w : UpdatePlaceholderRemove(j)
  \/ QueryStart
  \/ QueryPlaceholder
  \/ QueryProcessing
  \/ QueryComplete
  \/ QueryError
  \/ QueryDone
  \/ DeleteVideo
  \/ DeleteVideoNotFound

Spec == Init /\ [][Next]_vars

\* The worker threads and the deletion endpoint alone: the status query
\* writes nothing the worker reads.
NextWorkers ==
  \/ UploadNoFile(MaxFairUploads)
  \/ UploadInvalidType(MaxFairUploads)
  \/ UploadAccept(MaxFairUploads)
  \/ UploadCreateJobRaises(MaxFairUploads)
  \/ UploadReturn
  \/ \E j \in DOMAIN w : StartProcessing(j)
  \/ \E j \in DOMAIN w : MarkHalfway(j)
  \/ \E j \in DOMAIN w : MakeWorkingDir(j)
  \/ \E j \in DOMAIN w : Split(j)
  \/ \E j \in DOMAIN w : Isolate(j)
  \/ \E j \in DOMAIN w : Merge(j)
  \/ \E j \in DOMAIN w : CleanupRmtree(j)
  \/ \E j \in DOMAIN w : CleanupInputFile(j)
  \/ \E j \in DOMAIN w : CheckResult(j)
  \/ \E j \in DOMAIN w : MoveResult(j)
  \/ \E j \in DOMAIN w : MarkComplete(j)
  \/ \E j \in DOMAIN w : HandleException(j)
  \/ \E j \in DOMAIN w : UpdateProgress(j)
  \/ \E j \in DOMAIN w : UpdateErrorMessage(j)
  \/ \E j \in DOMAIN w : UpdateOutputFile(j)
  \/ \E j \in DOMAIN w : UpdatePlaceholderExists(j)
  \/ \E j \in DOMAIN w : UpdatePlaceholderRemove(j)
  \/ DeleteVideo
  \/ DeleteVideoNotFound

\* threading.Thread (main.py lines 377-379): a started thread keeps being
\* scheduled, and every external call it makes returns or raises.
SpecFair ==
  /\ Init
  /\ [][NextWorkers]_vars
  /\ \A j \in JobIds : WF_vars(j \in DOMAIN w /\ Worker(j))

\* ------------------------------------------------- process_video called

\* process_video called directly on a stored upload, with dry_run False or
\* True and cleanup True, while other job directories and other outputs may
\* exist.  The call has returned at "a231" and has raised at "a253".
InitPipeline ==
  LET j == JobUuid(1)
      file == InputPath(FileUuid(1), Clip)
      rec == NewJob(j, file, Clip)
  IN  /\ jobs = Ext(<<>>, j, rec)
      /\ hist = Ext(<<>>, j, {rec})
      /\ inputDir = {file}
      /\ outputDir \in {{}, WriteFile({}, CleanName(CleanFilename(Clip)), JobUuid(2))}
      /\ workingDir \in SUBSET {WorkUuid(JobUuid(2))}
      /\ token \in BOOLEAN
      /\ uploads = 1
      /\ up = IdleUpload
      /\ q = IdleQuery
      /\ deletes = 0
      /\ \E dry_run \in BOOLEAN :
           w = Ext(<<>>, j, [NewWorker(rec) EXCEPT !.pc = "p259", !.dry_run = dry_run])

NextPipeline ==
  \/ \E j \in DOMAIN w : MakeWorkingDir(j)
  \/ \E j \in DOMAIN w : Split(j)
  \/ \E j \in DOMAIN w : Isolate(j)
  \/ \E j \in DOMAIN w : Merge(j)
  \/ \E j \in DOMAIN w : CleanupRmtree(j)
  \/ \E j \in DOMAIN w : CleanupInputFile(j)

SpecPipeline == InitPipeline /\ [][NextPipeline]_vars

\* ------------------------------------------------------------------ claims

\* ----------------------------------------- cleanup_directories called twice

\* cleanup_directories called directly, twice with the same arguments:
\* working_dir is None (0) or a job directory that exists or not, input_file
\* is None or the path of an upload that exists or not, and other job
\* directories may exist beside it.  The first call returns to "again", the
\* second to "end".
InCleanup(l) == l.pc \in {"cd_rmtree", "cd_input"}

InitCleanup ==
  LET j == JobUuid(1)
      file == InputPath(FileUuid(1), Clip)
      rec == NewJob(j, file, Clip)
  IN  /\ jobs = Ext(<<>>, j, rec)
      /\ hist = Ext(<<>>, j, {rec})
      /\ inputDir \in SUBSET {file}
      /\ outputDir = {}
      /\ workingDir \in SUBSET {WorkUuid(j), WorkUuid(JobUuid(2))}
      /\ token \in BOOLEAN
      /\ uploads = 1
      /\ up = IdleUpload
      /\ q = IdleQuery
      /\ deletes = 0
      /\ \E d \in {0, WorkUuid(j)}, has_input \in BOOLEAN :
           w = Ext(<<>>, j, EnterCleanup([NewWorker(rec) EXCEPT !.working_dir = d],
                                         has_input, "again"))

\* The second call, with the arguments of the first.
CleanupAgain(j) ==
  /\ w[j].pc = "again"
  /\ w' = [w EXCEPT ![j] = EnterCleanup(@, @.cd_input, "end")]
  /\ UNCHANGED <<jobs, hist, inputDir, outputDir, workingDir, token, uploads, up, q, deletes>>

NextCleanup ==
  \/ \E j \in DOMAIN w : CleanupRmtree(j)
  \/ \E j \in DOMAIN w : CleanupInputFile(j)
  \/ \E j \in DOMAIN w : CleanupAgain(j)

SpecCleanup == InitCleanup /\ [][NextCleanup]_vars

\* C1: once a job's status is Complete or Error, no step changes it again.
C1_TerminalStatusNeverChanges ==
  [][\A j \in DOMAIN jobs :
       Terminal(jobs[j].status) => jobs'[j].status = jobs[j].status]_vars

\* C2: once the worker of a job has finished with a terminal status, exactly
\* one of output_file and error_message is non-empty: output_file for
\* Complete, error_message for Error.
C2_ExactlyOneResultField ==
  \A j \in DOMAIN w :
    (w[j].pc = "done" /\ Terminal(jobs[j].status)) =>
      /\ Truthy(jobs[j].output_file) = (jobs[j].status = JOB_STATUS_COMPLETE)
      /\ Truthy(jobs[j].error_message) = (jobs[j].status = JOB_STATUS_ERROR)

\* C3: a status query that read the status Error returns the error view,
\* never the processing view.
C3_ErrorStatusGetsErrorView ==
  (q.pc = "returned" /\ q.view # "notfound" /\ q.status = JOB_STATUS_ERROR) =>
    q.view = "error"

\* C4: every job whose worker has started eventually has status Complete or
\* Error in the job store.
C4_StartedJobReachesTerminal ==
  \A j \in JobIds :
    (j \in DOMAIN w) ~> (j \in DOMAIN jobs /\ Terminal(jobs[j].status))

\* C4 witness: a run whose merge stage raised has ended in Error.
C4_Witness ==
  \E j \in DOMAIN w :
    /\ w[j].pc = "done"
    /\ w[j].exc = MergeMessage
    /\ jobs[j].status = JOB_STATUS_ERROR

\* C5: when a job has ended in status Error, its uploaded source file still
\* exists.
C5_SourceKeptOnError ==
  \A j \in DOMAIN w :
    (w[j].pc = "done" /\ jobs[j].status = JOB_STATUS_ERROR) =>
      jobs[j].video_file_path \in inputDir

\* C6 as stated: whenever a job's status is Complete or Error, its scratch
\* directory no longer exists.
C6_ScratchGoneWhenTerminal ==
  \A j \in DOMAIN w :
    Terminal(jobs[j].status) => WorkUuid(j) \notin workingDir

\* C6 amended: whenever a job's status is Complete or Error, its scratch
\* directory no longer exists unless shutil.rmtree raised while removing it.
C6_ScratchGoneUnlessRmtreeRaised ==
  \A j \in DOMAIN w :
    (Terminal(jobs[j].status) /\ WorkUuid(j) \in workingDir) => w[j].rmtree_raised

\* C6 witness: a run that made its scratch directory and failed at merge is
\* in status Error with the directory removed.
C6_Witness ==
  \E j \in DOMAIN w :
    /\ jobs[j].status = JOB_STATUS_ERROR
    /\ w[j].exc = MergeMessage
    /\ w[j].working_dir = WorkUuid(j)
    /\ WorkUuid(j) \notin workingDir

\* C7: whenever a job's status is Complete, its uploaded source file has
\* been removed from the input store.
C7_SourceRemovedOnComplete ==
  \A j \in DOMAIN jobs :
    jobs[j].status = JOB_STATUS_COMPLETE => jobs[j].video_file_path \notin inputDir

\* The record one complete update_job_status call (main.py lines 206-213)
\* leaves, applied as a whole to the record it started from.
WholeUpdate(l) ==
  [l.pre EXCEPT !.status = l.a_status,
                !.progress = l.a_progress,
                !.error_message = IF Truthy(l.a_err) THEN l.a_err ELSE @,
                !.output_file = IF Truthy(l.a_out) THEN l.a_out ELSE @]

\* C8: every state of a job record that can be observed during an update is
\* the record before the update_job_status call or the record after it.
C8_UpdateVisibleAsWhole ==
  \A j \in DOMAIN w :
    InUpdate(w[j]) => jobs[j] \in {w[j].pre, WholeUpdate(w[j])}

\* C9: the fields a status query used for its response are the values of
\* one single state of the job record.
C9_ConsistentSnapshot ==
  (q.pc = "returned" /\ q.view # "notfound") =>
    \E r \in hist[q.job_id] :
      /\ r.status = q.status
      /\ q.view = "processing" => r.progress = q.progress
      /\ q.view \in {"redirect", "alert"} => r.output_file = q.output_file
      /\ q.view = "error" => r.error_message = q.error_message

\* C10: in every state of a job record, output_file is non-empty only if the
\* status is Complete and error_message is non-empty only if it is Error.
C10_ResultFieldsOnlyInTheirStatus ==
  \A j \in DOMAIN jobs :
    /\ Truthy(jobs[j].output_file) => jobs[j].status = JOB_STATUS_COMPLETE
    /\ Truthy(jobs[j].error_message) => jobs[j].status = JOB_STATUS_ERROR

\* C11: the progress a status poll reads is at least every progress the
\* job's record has held before, hence at least what any earlier poll of the
\* job read: the values polled one after the other never decrease.
C11_PolledProgressNeverDecreases ==
  [][(q.pc = "q616" /\ q'.pc = "returned") =>
       \A r \in hist[q.job_id] : r.progress <= q'.progress]_vars

\* A poll has read 100 from a record that went through 0, 25 and 50.
C11_Witness ==
  /\ q.pc = "returned"
  /\ q.view = "processing"
  /\ q.progress = 100
  /\ {r.progress : r \in hist[q.job_id]} = {0, 25, 50, 100}

\* C12: in every state of a job record, also between the field writes of
\* one update, progress is 100 only if the status is Complete or Error.
C12_FullProgressOnlyWhenTerminal ==
  \A j \in DOMAIN jobs :
    jobs[j].progress = 100 => Terminal(jobs[j].status)

\* The final update has written progress 100 and not yet output_file.
C12_Witness ==
  \E j \in DOMAIN w :
    /\ w[j].pc = "u_output"
    /\ jobs[j].progress = 100
    /\ jobs[j].status = JOB_STATUS_COMPLETE

\* C13: when the upload handler returns the redirect of an accepted upload,
\* the job id it returns is a key of the job store and the job's status is
\* Pending or Processing, which is what a status query issued at once reads.
C13_ReturnedJobPendingOrProcessing ==
  [][(up.pc = "u382" /\ up'.pc = "idle") =>
       /\ up'.job_id \in DOMAIN jobs'
       /\ jobs'[up'.job_id].status \in {JOB_STATUS_PENDING, JOB_STATUS_PROCESSING}]_vars

\* C13, amended: when the upload handler returns the redirect, the job id it
\* returns is a key of the job store and names the job whose worker thread
\* was started; the status is Pending or Processing unless that worker has
\* already written Complete or Error.
C13_ReturnedJobIsStored ==
  [][(up.pc = "u382" /\ up'.pc = "idle") =>
       /\ up'.view = "redirect"
       /\ up'.job_id \in DOMAIN jobs'
       /\ up'.job_id \in DOMAIN w'
       /\ \/ jobs'[up'.job_id].status \in {JOB_STATUS_PENDING, JOB_STATUS_PROCESSING}
          \/ /\ Terminal(jobs'[up'.job_id].status)
             /\ Terminal(w'[up'.job_id].a_status)]_vars

\* The handler has returned the redirect before the worker took a step.
C13_Witness ==
  /\ up.pc = "idle"
  /\ up.view = "redirect"
  /\ up.job_id \in DOMAIN jobs
  /\ jobs[up.job_id].status = JOB_STATUS_PENDING
  /\ w[up.job_id].pc = "a223"

\* C14: an upload with no file, or with a file whose extension, compared
\* without regard to case, is none of mp4, avi, mov, mkv and webm, is
\* answered with a rejection and changes nothing: the job store, the input
\* store, the output store (no placeholder), the working directories and
\* the set of started workers are as before.
C14_RejectedUploadHasNoEffect ==
  [][(uploads' # uploads
        /\ (~Truthy(up'.filename)
              \/ Lower(SplitextExt(up'.filename)) \notin allowed_extensions)) =>
       /\ up'.pc = "idle"
       /\ up'.view \in {"nofile", "invalid"}
       /\ UNCHANGED <<jobs, inputDir, outputDir, workingDir, w>>]_vars

\* The handler has rejected a file with an extension that is not allowed.
C14_Witness ==
  /\ up.view = "invalid"
  /\ up.filename = Notes
  /\ uploads > 0

\* C15: a status query for an id that is no key of the job store returns
\* the not-found view (it does not raise), and no step of a status query,
\* for whatever id, changes a job record or the key set of the job store.
C15_QueryLeavesJobStoreUnchanged ==
  [][q' # q =>
       /\ jobs' = jobs
       /\ (q.pc = "idle" /\ q'.job_id \notin DOMAIN jobs) =>
            (q'.pc = "returned" /\ q'.view = "notfound")]_vars

\* A query for an unknown id was answered while the store held a job.
C15_Witness ==
  /\ q.pc = "returned"
  /\ q.view = "notfound"
  /\ q.job_id \notin DOMAIN jobs
  /\ DOMAIN jobs # {}

\* C16: a status query that arrived after the worker of a job had finished
\* its final update and that read the status Complete returns the redirect
\* to the detail view of the file named by the job's output_file, never the
\* processing view and never the alert that the output file is missing.
C16_CompleteJobGetsRedirect ==
  (q.pc = "returned" /\ q.after_done /\ q.status = JOB_STATUS_COMPLETE) =>
    /\ q.view = "redirect"
    /\ Truthy(q.output_file)
    /\ q.output_file = jobs[q.job_id].output_file

\* Such a query has been answered with the redirect.
C16_Witness ==
  /\ q.pc = "returned"
  /\ q.after_done
  /\ q.status = JOB_STATUS_COMPLETE
  /\ q.view = "redirect"
  /\ q.output_file = CleanFilename(Clip)

\* C17: in the step in which a job's status becomes Complete, the new record
\* has output_file equal to the original base name, "_processed" and the
\* original extension, and the output store holds a file of that name.
C17_CompleteNamesStoredOutput ==
  [][\A j \in DOMAIN jobs :
       (jobs[j].status # JOB_STATUS_COMPLETE /\ jobs'[j].status = JOB_STATUS_COMPLETE) =>
         /\ jobs'[j].output_file = CleanFilename(jobs[j].original_filename)
         /\ Exists(outputDir', CleanName(CleanFilename(jobs[j].original_filename)))]_vars

IsPrefix(s, t) ==
  /\ Len(s) <= Len(t)
  /\ \A i \in 1..Len(s) : s[i] = t[i]

\* C19: the stage functions process_video has called are, in order, a
\* prefix of split, isolate, merge when dry_run is False and of split,
\* merge when it is True; and once a stage has raised no stage is called.
C19_StagesInOrder ==
  /\ [](\A j \in DOMAIN w :
          IsPrefix(w[j].stages,
                   IF w[j].dry_run THEN <<"split", "merge">>
                                   ELSE <<"split", "isolate", "merge">>))
  /\ [][\A j \in DOMAIN w :
          w[j].exc # None => w'[j].stages = w[j].stages]_vars

\* A dry run has called split and merge and has returned.
C19_Witness ==
  \E j \in DOMAIN w :
    /\ w[j].dry_run
    /\ w[j].stages = <<"split", "merge">>
    /\ w[j].pc = "a231"

\* C20: while split is about to run or running the job's progress is 25,
\* and the progress is 50 only when split has returned and the isolation
\* call has not started.
C20_ProgressFollowsStages ==
  \A j \in DOMAIN w :
    /\ w[j].pc = "p274" => jobs[j].progress = 25
    /\ jobs[j].progress = 50 => (w[j].pc = "p279" /\ w[j].stages = <<"split">>)

\* C21: without a token, for every run that is not a dry run, the remote
\* service is never called and merge is never called; and once the worker
\* has finished, the job's status is Error, its error_message is non-empty,
\* its working directory is gone and its uploaded file is still stored.
C21_MissingTokenFailsFast ==
  ~token =>
    \A j \in DOMAIN w :
      ~w[j].dry_run =>
        /\ ~w[j].remote
        /\ \A i \in 1..Len(w[j].stages) : w[j].stages[i] # "merge"
        /\ w[j].pc = "done" =>
             /\ jobs[j].status = JOB_STATUS_ERROR
             /\ Truthy(jobs[j].error_message)
             /\ WorkUuid(j) \notin workingDir
             /\ jobs[j].video_file_path \in inputDir

\* C21, amended: as C21, but the working directory is gone unless
\* shutil.rmtree raised while removing it.
C21_MissingTokenFailsFastUnlessRmtreeRaised ==
  ~token =>
    \A j \in DOMAIN w :
      ~w[j].dry_run =>
        /\ ~w[j].remote
        /\ \A i \in 1..Len(w[j].stages) : w[j].stages[i] # "merge"
        /\ w[j].pc = "done" =>
             /\ jobs[j].status = JOB_STATUS_ERROR
             /\ Truthy(jobs[j].error_message)
             /\ WorkUuid(j) \in workingDir => w[j].rmtree_raised
             /\ jobs[j].video_file_path \in inputDir

\* Without a token a job has ended in Error at the token test, after split.
C21_Witness ==
  /\ ~token
  /\ \E j \in DOMAIN w :
       /\ w[j].pc = "done"
       /\ w[j].stages = <<"split", "isolate">>
       /\ jobs[j].status = JOB_STATUS_ERROR
       /\ jobs[j].error_message = TokenMessage
       /\ WorkUuid(j) \notin workingDir

\* C22: the upload of every job is stored in the input store under a name
\* whose prefix is the job's id, the key of its record in the job store.
C22_InputNamePrefixedByJobId ==
  \A j \in DOMAIN jobs :
    /\ jobs[j].id = j
    /\ jobs[j].video_file_path.id = j

\* C23: whenever a job's status is Complete and the file its output_file
\* names is in the output store, that file is the result of the job's own
\* run: no other job's completion has replaced it.
C23_OutputFileNamesOwnResult ==
  \A j \in DOMAIN jobs :
    (/\ jobs[j].status = JOB_STATUS_COMPLETE
     /\ Truthy(jobs[j].output_file)
     /\ Exists(outputDir, CleanName(jobs[j].output_file))) =>
      DataOf(outputDir, CleanName(jobs[j].output_file)) = j

\* C24: every job record in the job store has had a worker started for it;
\* in particular none is left when create_job raised after the insertion.
C24_EveryRecordHasWorker ==
  \A j \in DOMAIN jobs : j \in DOMAIN w

\* C25: while a job's status is Processing, no file its run has written
\* into the output store (the output of merge, under either of its names)
\* is returned by list_videos or accepted for deletion.
C25_UnfinishedOutputNotExposed ==
  \A j \in DOMAIN jobs :
    jobs[j].status = JOB_STATUS_PROCESSING =>
      \A e \in outputDir :
        (e.data = j /\ e.file.kind # "placeholder") =>
          /\ e.file \notin list_videos(outputDir)
          /\ e.file \notin Deletable(outputDir)

\* C26: when process_video has returned, having called cleanup_directories
\* with the working directory and the input file, the input file is gone,
\* whether or not shutil.rmtree raised.
C26_InputRemovedAfterSuccess ==
  \A j \in DOMAIN w :
    w[j].pc = "a231" => jobs[j].video_file_path \notin inputDir

====
